---- MODULE Spec2Model ----
(***************************************************************************)
(* The markdown toolbar transform engine of components/MarkdownEditor.tsx: *)
(* the selection-based formatting operations, the undo/redo history of     *)
(* whole-buffer snapshots and the typed-edit history capture.              *)
(*                                                                         *)
(* A string is a sequence of one-character strings; offsets are the        *)
(* zero-based offsets of the source.                                       *)
(***************************************************************************)
EXTENDS Integers, Sequences, FiniteSets, TLC

VARIABLES
    value,          \* the buffer: the `value` prop the host passes in
    undoStack,      \* history.undoStack, oldest first
    redoStack,      \* history.redoStack
    lastValue,      \* lastValueRef.current
    selStart,       \* textarea.selectionStart
    selEnd,         \* textarea.selectionEnd
    hasSelection,   \* the hasSelection state
    rafQueue,       \* callbacks handed to requestAnimationFrame, oldest first
    otherContent,   \* the host's content of the language tab that is not shown
    translate,      \* the request the translate endpoint is handling
    api,            \* the admin API call the browser is making
    lastOp,         \* history variable: the event handled last
    pre,            \* history variable: the state that event was handled in
    run,            \* history variable: the current transform/undo/redo run
    lastEdits,      \* history variable: the last two edits that took effect
    nEvents         \* history variable: number of events handled so far

vars == << value, undoStack, redoStack, lastValue, selStart, selEnd,
           hasSelection, rafQueue, otherContent, translate, api, lastOp, pre,
           run, lastEdits, nEvents >>

\* the variables of the editor and of its host
editorVars == << value, undoStack, redoStack, lastValue, selStart, selEnd,
                 hasSelection, rafQueue, otherContent, lastOp, pre, run,
                 lastEdits, nEvents >>

-----------------------------------------------------------------------------
(* Characters and string literals *)

NL == "\n"

\* the backtick character (a token: the character itself cannot be written in a string here)
BQ == "BQ"

Whitespace == { " ", NL, "\t" }

Digit(d) ==
    CASE d = 0 -> "0" [] d = 1 -> "1" [] d = 2 -> "2" [] d = 3 -> "3"
      [] d = 4 -> "4" [] d = 5 -> "5" [] d = 6 -> "6" [] d = 7 -> "7"
      [] d = 8 -> "8" [] d = 9 -> "9"

\* `${n}`: the decimal digits of a natural number
RECURSIVE NumToStr(_)
NumToStr(n) ==
    IF n < 10 THEN << Digit(n) >>
    ELSE NumToStr(n \div 10) \o << Digit(n % 10) >>

\* String.prototype.substring(a, b) for 0 <= a <= b <= length
substring(s, a, b) == SubSeq(s, a + 1, b)

\* String.prototype.substring(a): from offset a to the end
substringFrom(s, a) == SubSeq(s, a + 1, Len(s))

\* String.prototype.split("\n"): always at least one piece
RECURSIVE split(_)
split(s) ==
    IF \A i \in 1..Len(s) : s[i] # NL
    THEN << s >>
    ELSE LET i == CHOOSE k \in 1..Len(s) :
                      s[k] = NL /\ \A j \in 1..(k - 1) : s[j] # NL
         IN  << SubSeq(s, 1, i - 1) >> \o split(SubSeq(s, i + 1, Len(s)))

\* Array.prototype.join("\n")
RECURSIVE join(_)
join(lines) ==
    IF Len(lines) = 0 THEN << >>
    ELSE IF Len(lines) = 1 THEN lines[1]
    ELSE lines[1] \o << NL >> \o join(Tail(lines))

\* String.prototype.trimStart()
RECURSIVE trimStart(_)
trimStart(s) ==
    IF Len(s) > 0 /\ s[1] \in Whitespace THEN trimStart(Tail(s)) ELSE s

\* String.prototype.startsWith(p)
startsWith(s, p) == Len(s) >= Len(p) /\ SubSeq(s, 1, Len(p)) = p

\* the literals of the templates
Hash1 == << "#", " " >>
Hash2 == << "#", "#", " " >>
Hash3 == << "#", "#", "#", " " >>
Stars2 == << "*", "*" >>
Star1 == << "*" >>
Tick1 == << BQ >>
Dash == << "-", " " >>
DotSp == << ".", " " >>
Gt == << ">", " " >>
UrlTail == << "]", "(", "h", "t", "t", "p", "s", ":", "/", "/", ")" >>
FenceOpen == << BQ, BQ, BQ, NL >>
FenceClose == << NL, BQ, BQ, BQ >>
TableHead ==
    << "|", " ", "C", "o", "l", "u", "m", "n", " ", "1", " ",
       "|", " ", "C", "o", "l", "u", "m", "n", " ", "2", " ", "|", NL,
       "|", "-", "-", "-", "|", "-", "-", "-", "|", NL,
       "|", " " >>
TableTail == << " ", "|", " ", " ", "|" >>
Rule == << NL, "-", "-", "-", NL >>

-----------------------------------------------------------------------------
(* The transform functions: (selectedText, fullText, start, end) ->          *)
(* { newText, newSelectionStart, newSelectionEnd }                          *)

Result(t, s, e) ==
    [ newText |-> t, newSelectionStart |-> s, newSelectionEnd |-> e ]

\* the splice that loses the character that follows the selection
SpliceSkipsOne(full, start, end, newSel) ==
    substring(full, 0, start) \o newSel \o substringFrom(full, end + 1)

\* full.substring(0, start) + newSel + full.substring(end)
Splice(full, start, end, newSel) ==
    substring(full, 0, start) \o newSel \o substringFrom(full, end)

\* sel.split("\n").map((line) => prefix + line)
PrefixLines(sel, prefix) ==
    LET lines == split(sel)
    IN  [ i \in 1..Len(lines) |-> prefix \o lines[i] ]

h1(sel, full, start, end) ==
    LET newSel == join(PrefixLines(sel, Hash1))
    IN  Result(Splice(full, start, end, newSel), start, start + Len(newSel))

h2(sel, full, start, end) ==
    LET newSel == join(PrefixLines(sel, Hash2))
    IN  Result(Splice(full, start, end, newSel), start, start + Len(newSel))

h3(sel, full, start, end) ==
    LET newSel == join(PrefixLines(sel, Hash3))
    IN  Result(Splice(full, start, end, newSel), start, start + Len(newSel))

\* bold with the markers left inside the new selection
boldSelectsMarkers(sel, full, start, end) ==
    LET newSel == Stars2 \o sel \o Stars2
    IN  Result(Splice(full, start, end, newSel), start, start + Len(newSel))

bold(sel, full, start, end) ==
    LET newSel == Stars2 \o sel \o Stars2
    IN  Result(Splice(full, start, end, newSel), start + 2, start + 2 + Len(sel))

italic(sel, full, start, end) ==
    LET newSel == Star1 \o sel \o Star1
    IN  Result(Splice(full, start, end, newSel), start + 1, start + 1 + Len(sel))

code(sel, full, start, end) ==
    LET newSel == Tick1 \o sel \o Tick1
    IN  Result(Splice(full, start, end, newSel), start + 1, start + 1 + Len(sel))

\* bullets that looks for "- " without trimming the line
bulletsUntrimmed(sel, full, start, end) ==
    LET lines == split(sel)
        out == [ i \in 1..Len(lines) |->
                   IF startsWith(lines[i], Dash)
                   THEN lines[i]
                   ELSE Dash \o lines[i] ]
        newSel == join(out)
    IN  Result(Splice(full, start, end, newSel), start, start + Len(newSel))

bullets(sel, full, start, end) ==
    LET lines == split(sel)
        out == [ i \in 1..Len(lines) |->
                   IF startsWith(trimStart(lines[i]), Dash)
                   THEN lines[i]
                   ELSE Dash \o lines[i] ]
        newSel == join(out)
    IN  Result(Splice(full, start, end, newSel), start, start + Len(newSel))

\* numbered with the lines counted from 0
numberedFromZero(sel, full, start, end) ==
    LET lines == split(sel)
        out == [ i \in 1..Len(lines) |-> NumToStr(i - 1) \o DotSp \o lines[i] ]
        newSel == join(out)
    IN  Result(Splice(full, start, end, newSel), start, start + Len(newSel))

numbered(sel, full, start, end) ==
    LET lines == split(sel)
        out == [ i \in 1..Len(lines) |-> NumToStr(i) \o DotSp \o lines[i] ]
        newSel == join(out)
    IN  Result(Splice(full, start, end, newSel), start, start + Len(newSel))

quote(sel, full, start, end) ==
    LET newSel == join(PrefixLines(sel, Gt))
    IN  Result(Splice(full, start, end, newSel), start, start + Len(newSel))

\* link with the closing parenthesis left inside the new selection
linkSelectsParen(sel, full, start, end) ==
    LET newSel == << "[" >> \o sel \o UrlTail
    IN  Result(Splice(full, start, end, newSel),
               start + Len(sel) + 3, start + Len(newSel))

link(sel, full, start, end) ==
    LET newSel == << "[" >> \o sel \o UrlTail
    IN  Result(Splice(full, start, end, newSel),
               start + Len(sel) + 3, start + Len(newSel) - 1)

image(sel, full, start, end) ==
    LET newSel == << "!", "[" >> \o sel \o UrlTail
    IN  Result(Splice(full, start, end, newSel),
               start + Len(sel) + 4, start + Len(newSel) - 1)

codeblock(sel, full, start, end) ==
    LET newSel == FenceOpen \o sel \o FenceClose
    IN  Result(Splice(full, start, end, newSel), start + 4, start + 4 + Len(sel))

table(sel, full, start, end) ==
    LET newSel == TableHead \o sel \o TableTail
    IN  Result(Splice(full, start, end, newSel), start + 34, start + 34 + Len(sel))

\* hr that keeps the selected text after the rule
hrKeepsSelection(sel, full, start, end) ==
    LET newSel == Rule \o sel
    IN  Result(Splice(full, start, end, newSel), start, start + Len(newSel))

\* hr with the end of the new selection counted from the old end
hrEndFromOldEnd(sel, full, start, end) ==
    LET newSel == Rule
    IN  Result(Splice(full, start, end, newSel), start, end + Len(newSel))

hr(sel, full, start, end) ==
    LET newSel == Rule
    IN  Result(Splice(full, start, end, newSel), start, start + Len(newSel))

\* the keys of the `transforms` record
FormatOps ==
    { "h1", "h2", "h3", "bold", "italic", "code", "bullets", "numbered",
      "quote", "link", "image", "codeblock", "table", "hr" }

\* the value `undefined`, which is not a text
Undefined == << "undefined" >>

\* the ids that are no key of `transforms` and for which transforms[id] still
\* is a function, the one the object literal inherits from Object.prototype
InheritedOps == { "toString" }

\* Object.prototype.toString called as transformFn: it returns a string, whose
\* newText, newSelectionStart and newSelectionEnd are undefined;
\* setSelectionRange takes an undefined offset as 0
objectToString(sel, full, start, end) == Result(Undefined, 0, 0)

\* transforms[id](sel, full, start, end)
transforms(id, sel, full, start, end) ==
    CASE id = "h1" -> h1(sel, full, start, end)
      [] id = "h2" -> h2(sel, full, start, end)
      [] id = "h3" -> h3(sel, full, start, end)
      [] id = "bold" -> bold(sel, full, start, end)
      [] id = "italic" -> italic(sel, full, start, end)
      [] id = "code" -> code(sel, full, start, end)
      [] id = "bullets" -> bullets(sel, full, start, end)
      [] id = "numbered" -> numbered(sel, full, start, end)
      [] id = "quote" -> quote(sel, full, start, end)
      [] id = "link" -> link(sel, full, start, end)
      [] id = "image" -> image(sel, full, start, end)
      [] id = "codeblock" -> codeblock(sel, full, start, end)
      [] id = "table" -> table(sel, full, start, end)
      [] id = "hr" -> hr(sel, full, start, end)
      [] id = "toString" -> objectToString(sel, full, start, end)

-----------------------------------------------------------------------------
(* Bounds of the model *)

\* longest buffer of Spec
MaxLen == 14

\* number of toolbar and typing events of one behaviour of Spec
MaxEvents == 4

\* longest run of consecutive transforms in SpecHistory
MaxRun == 53

\* longest initial buffer of SpecPure
PureMaxLen == 4

-----------------------------------------------------------------------------
(* Program constants *)

\* prev.undoStack.slice(-50)
UndoLimit == 50

\* Math.abs(newValue.length - lastVal.length) > 10
TypingDelta == 10

-----------------------------------------------------------------------------
(* History *)

Last(s) == s[Len(s)]

\* Array.prototype.slice(0, -1)
DropLast(s) == SubSeq(s, 1, Len(s) - 1)

\* Array.prototype.slice(-n): the last n elements, all of them when fewer
sliceLast(s, n) == IF Len(s) <= n THEN s ELSE SubSeq(s, Len(s) - n + 1, Len(s))

History(u, r) == [ undoStack |-> u, redoStack |-> r ]

\* pushToUndo that keeps the redo stack
pushToUndoKeepsRedo(prev, prevValue) ==
    History(Append(sliceLast(prev.undoStack, UndoLimit), prevValue), prev.redoStack)

\* the updater pushToUndo hands to setHistory, applied to prev
pushToUndo(prev, prevValue) ==
    History(Append(sliceLast(prev.undoStack, UndoLimit), prevValue), << >>)

\* the undo updater that saves the restored snapshot instead of the buffer
undoUpdateSavesRestored(prev, current) ==
    History(DropLast(prev.undoStack), Append(prev.redoStack, Last(prev.undoStack)))

\* the updater of the undo branch
undoUpdate(prev, current) ==
    History(DropLast(prev.undoStack), Append(prev.redoStack, current))

\* the redo updater that saves the restored snapshot instead of the buffer
redoUpdateSavesRestored(prev, current) ==
    History(Append(prev.undoStack, Last(prev.redoStack)), DropLast(prev.redoStack))

\* the updater of the redo branch
redoUpdate(prev, current) ==
    History(Append(prev.undoStack, current), DropLast(prev.redoStack))

\* the condition under which handleChange records lastVal
shouldRecord(newValue, lastVal, undoLen) ==
    LET d == Len(newValue) - Len(lastVal)
        timeSinceLastChange == (IF d < 0 THEN -d ELSE d) > TypingDelta
    IN  timeSinceLastChange \/ undoLen = 0

-----------------------------------------------------------------------------
(* History variables *)

Snapshot ==
    [ value |-> value, undoStack |-> undoStack, redoStack |-> redoStack,
      lastValue |-> lastValue, selStart |-> selStart, selEnd |-> selEnd,
      hasSelection |-> hasSelection, rafQueue |-> rafQueue,
      lastEdits |-> lastEdits ]

NoRun == [ phase |-> "idle", base |-> << >>, top |-> << >>, n |-> 0, k |-> 0 ]

\* a run is: n successful transforms from buffer base (reaching buffer top),
\* then k undo calls, then (after n undo calls) k redo calls
RunTransform(r, before, after) ==
    IF r.phase = "fwd"
    THEN [ r EXCEPT !.top = after, !.n = r.n + 1 ]
    ELSE [ phase |-> "fwd", base |-> before, top |-> after, n |-> 1, k |-> 0 ]

RunUndo(r) ==
    IF r.phase = "fwd" THEN [ r EXCEPT !.phase = "undo", !.k = 1 ]
    ELSE IF r.phase = "undo" /\ r.k < r.n THEN [ r EXCEPT !.k = r.k + 1 ]
    ELSE NoRun

RunRedo(r) ==
    IF r.phase = "undo" /\ r.k = r.n THEN [ r EXCEPT !.phase = "redo", !.k = 1 ]
    ELSE IF r.phase = "redo" /\ r.k < r.n THEN [ r EXCEPT !.k = r.k + 1 ]
    ELSE NoRun

\* the kinds of edit: a formatting operation that was applied, an undo or a
\* redo that restored a snapshot, a typed edit that was recorded ("push") or
\* was not ("type")
Edited(kind) == lastEdits' = << lastEdits[2], kind >>

Event(op) ==
    /\ lastOp' = op
    /\ pre' = Snapshot

-----------------------------------------------------------------------------
(* The host and the textarea *)

\* onChange(v): the host stores v and passes it back as `value`; the controlled
\* textarea is given the new text, which moves the caret to its end when the
\* text differs from the one shown (a textarea whose value becomes undefined
\* is left as it is)
HostSet(v) ==
    /\ value' = v
    /\ IF v = value \/ v = Undefined
       THEN UNCHANGED << selStart, selEnd >>
       ELSE selStart' = Len(v) /\ selEnd' = Len(v)

Min(a, b) == IF a < b THEN a ELSE b

-----------------------------------------------------------------------------
(* The handlers *)

\* applyTransform without the guard on an empty selection
applyTransformUnguarded(id) ==
    LET start == selStart
        end == selEnd
        selectedText == substring(value, start, end)
        result == transforms(id, selectedText, value, start, end)
        h == pushToUndo(History(undoStack, redoStack), value)
    IN  /\ undoStack' = h.undoStack
        /\ redoStack' = h.redoStack
        /\ HostSet(result.newText)
        /\ rafQueue' = Append(rafQueue,
               << result.newSelectionStart, result.newSelectionEnd >>)
        /\ run' = RunTransform(run, value, result.newText)
        /\ Edited("transform")

\* applyTransform that sets the new selection at once, not in the next frame
applyTransformSelectsAtOnce(id) ==
    LET start == selStart
        end == selEnd
    IN  IF start = end
        THEN UNCHANGED << value, undoStack, redoStack, selStart, selEnd,
                          rafQueue, run, lastEdits >>
        ELSE LET selectedText == substring(value, start, end)
                 result == transforms(id, selectedText, value, start, end)
                 h == pushToUndo(History(undoStack, redoStack), value)
             IN  /\ undoStack' = h.undoStack
                 /\ redoStack' = h.redoStack
                 /\ value' = result.newText
                 /\ selStart' = result.newSelectionStart
                 /\ selEnd' = result.newSelectionEnd
                 /\ UNCHANGED rafQueue
                 /\ run' = RunTransform(run, value, result.newText)
                 /\ Edited("transform")

\* applyTransform that records nothing when the transform returns the text
\* it was given
applyTransformSkipsUnchanged(id) ==
    LET start == selStart
        end == selEnd
    IN  IF start = end
        THEN UNCHANGED << value, undoStack, redoStack, selStart, selEnd,
                          rafQueue, run, lastEdits >>
        ELSE LET selectedText == substring(value, start, end)
                 result == transforms(id, selectedText, value, start, end)
                 h == IF result.newText = value
                      THEN History(undoStack, redoStack)
                      ELSE pushToUndo(History(undoStack, redoStack), value)
             IN  /\ undoStack' = h.undoStack
                 /\ redoStack' = h.redoStack
                 /\ HostSet(result.newText)
                 /\ rafQueue' = Append(rafQueue,
                        << result.newSelectionStart, result.newSelectionEnd >>)
                 /\ run' = RunTransform(run, value, result.newText)
                 /\ Edited("transform")

\* applyTransform(transforms[id])
applyTransform(id) ==
    LET start == selStart
        end == selEnd
    IN  IF start = end
        THEN UNCHANGED << value, undoStack, redoStack, selStart, selEnd,
                          rafQueue, run, lastEdits >>
        ELSE LET selectedText == substring(value, start, end)
                 result == transforms(id, selectedText, value, start, end)
                 h == pushToUndo(History(undoStack, redoStack), value)
             IN  /\ undoStack' = h.undoStack
                 /\ redoStack' = h.redoStack
                 /\ HostSet(result.newText)
                 /\ rafQueue' = Append(rafQueue,
                        << result.newSelectionStart, result.newSelectionEnd >>)
                 /\ run' = RunTransform(run, value, result.newText)
                 /\ Edited("transform")

\* undo that leaves the restored entry on the undo stack
undoKeepsEntry ==
    IF Len(undoStack) = 0
    THEN UNCHANGED << value, undoStack, redoStack, selStart, selEnd, lastEdits >>
    ELSE /\ undoStack' = undoStack
         /\ redoStack' = Append(redoStack, value)
         /\ HostSet(Last(undoStack))
         /\ Edited("undo")

\* handleToolbarClick("undo")
undo ==
    IF Len(undoStack) = 0
    THEN UNCHANGED << value, undoStack, redoStack, selStart, selEnd, lastEdits >>
    ELSE LET prevValue == Last(undoStack)
             h == undoUpdate(History(undoStack, redoStack), value)
         IN  /\ undoStack' = h.undoStack
             /\ redoStack' = h.redoStack
             /\ HostSet(prevValue)
             /\ Edited("undo")

\* redo that does not record the buffer it replaces
redoDropsBuffer ==
    IF Len(redoStack) = 0
    THEN UNCHANGED << value, undoStack, redoStack, selStart, selEnd, lastEdits >>
    ELSE /\ undoStack' = undoStack
         /\ redoStack' = DropLast(redoStack)
         /\ HostSet(Last(redoStack))
         /\ Edited("redo")

\* handleToolbarClick("redo")
redo ==
    IF Len(redoStack) = 0
    THEN UNCHANGED << value, undoStack, redoStack, selStart, selEnd, lastEdits >>
    ELSE LET nextValue == Last(redoStack)
             h == redoUpdate(History(undoStack, redoStack), value)
         IN  /\ undoStack' = h.undoStack
             /\ redoStack' = h.redoStack
             /\ HostSet(nextValue)
             /\ Edited("redo")

\* the buttons of the toolbar: toolbarButtons without the dividers
Buttons == FormatOps \cup { "undo", "redo" }

\* isDisabled that looks at the undo stack for the redo button too
isDisabledByUndoStack(id) ==
    IF id = "undo" \/ id = "redo" THEN Len(undoStack) = 0 ELSE ~hasSelection

\* isDisabled of ToolbarButton
isDisabled(id) ==
    IF id = "undo" THEN Len(undoStack) = 0
    ELSE IF id = "redo" THEN Len(redoStack) = 0
    ELSE ~hasSelection

\* the body of handleToolbarClick(id)
toolbarClick(id) ==
    /\ UNCHANGED << lastValue, hasSelection, otherContent, translate, api >>
    /\ IF id = "undo"
       THEN undo /\ run' = RunUndo(run) /\ UNCHANGED rafQueue
       ELSE IF id = "redo"
       THEN redo /\ run' = RunRedo(run) /\ UNCHANGED rafQueue
       ELSE IF id \in FormatOps \cup InheritedOps
       THEN applyTransform(id)
       ELSE UNCHANGED << value, undoStack, redoStack, selStart, selEnd,
                         rafQueue, run, lastEdits >>

\* a click on the toolbar button id
handleToolbarClick(id) == Event(id) /\ toolbarClick(id)

\* e.key.toLowerCase()
toLowerCase(k) ==
    CASE k = "B" -> "b"
      [] k = "I" -> "i"
      [] k = "Z" -> "z"
      [] k = "Y" -> "y"
      [] k = "A" -> "a"
      [] OTHER -> k

\* a key event of the textarea
KeyEvent(key, ctrlKey, metaKey, shiftKey) ==
    [ key |-> key, ctrlKey |-> ctrlKey, metaKey |-> metaKey,
      shiftKey |-> shiftKey ]

\* the name a key event is recorded under, as in "Ctrl+Shift+Z"
KeyLabel(e) ==
    (IF e.ctrlKey THEN "Ctrl+" ELSE "")
      \o (IF e.metaKey THEN "Meta+" ELSE "")
      \o (IF e.shiftKey THEN "Shift+" ELSE "")
      \o e.key

\* what handleKeyDown does when it calls nothing
keyIgnored ==
    UNCHANGED << value, undoStack, redoStack, lastValue, selStart, selEnd,
                 hasSelection, rafQueue, otherContent, translate, api, run,
                 lastEdits >>

\* handleKeyDown that takes Shift+Z for Z
handleKeyDownIgnoresShift(e) ==
    /\ Event(KeyLabel(e))
    /\ IF e.ctrlKey \/ e.metaKey
       THEN CASE toLowerCase(e.key) = "b" ->
                   IF hasSelection THEN toolbarClick("bold") ELSE keyIgnored
              [] toLowerCase(e.key) = "i" ->
                   IF hasSelection THEN toolbarClick("italic") ELSE keyIgnored
              [] toLowerCase(e.key) = "z" -> toolbarClick("undo")
              [] toLowerCase(e.key) = "y" -> toolbarClick("redo")
              [] OTHER -> keyIgnored
       ELSE keyIgnored

\* handleKeyDown(e)
handleKeyDown(e) ==
    /\ Event(KeyLabel(e))
    /\ IF e.ctrlKey \/ e.metaKey
       THEN CASE toLowerCase(e.key) = "b" ->
                   IF hasSelection THEN toolbarClick("bold") ELSE keyIgnored
              [] toLowerCase(e.key) = "i" ->
                   IF hasSelection THEN toolbarClick("italic") ELSE keyIgnored
              [] toLowerCase(e.key) = "z" ->
                   IF e.shiftKey THEN toolbarClick("redo")
                   ELSE toolbarClick("undo")
              [] toLowerCase(e.key) = "y" -> toolbarClick("redo")
              [] OTHER -> keyIgnored
       ELSE keyIgnored

\* handleChange(newValue): the user has edited the text of the textarea
handleChange(newValue) ==
    /\ Event("type")
    /\ IF lastValue # newValue
       THEN /\ IF shouldRecord(newValue, lastValue, Len(undoStack))
               THEN LET h == pushToUndo(History(undoStack, redoStack), lastValue)
                    IN  /\ undoStack' = h.undoStack
                        /\ redoStack' = h.redoStack
                        /\ Edited("push")
               ELSE UNCHANGED << undoStack, redoStack >> /\ Edited("type")
            /\ lastValue' = newValue
       ELSE UNCHANGED << undoStack, redoStack, lastValue >> /\ Edited("type")
    /\ value' = newValue
    \* the caret follows the edit, which is made at the end of the text
    /\ selStart' = Len(newValue)
    /\ selEnd' = Len(newValue)
    /\ hasSelection' = FALSE
    /\ run' = NoRun
    /\ UNCHANGED << rafQueue, otherContent, translate, api >>

\* the user moves the caret or selects text: handleSelectionChange
handleSelectionChange(s, e) ==
    /\ lastOp' = "select"
    /\ pre' = Snapshot
    /\ selStart' = s
    /\ selEnd' = e
    /\ hasSelection' = (s # e)
    /\ UNCHANGED << value, undoStack, redoStack, lastValue, rafQueue, run,
                    lastEdits, otherContent, translate, api >>

\* the callback applyTransform hands to requestAnimationFrame
animationFrame ==
    /\ Len(rafQueue) > 0
    /\ lastOp' = "raf"
    /\ pre' = Snapshot
    /\ LET e == Min(Head(rafQueue)[2], Len(value))
           s == Min(Head(rafQueue)[1], e)
       IN  selStart' = s /\ selEnd' = e /\ hasSelection' = (s # e)
    /\ rafQueue' = Tail(rafQueue)
    /\ UNCHANGED << value, undoStack, redoStack, lastValue, run, lastEdits,
                    otherContent, translate, api >>

\* the host's setActiveTab: getContentValue() now returns the content of the
\* other language, which the same MarkdownEditor is rendered with; its
\* history state and lastValueRef are kept
setActiveTab ==
    /\ Event("switch")
    /\ value' = otherContent
    /\ otherContent' = value
    /\ IF otherContent = value
       THEN UNCHANGED << selStart, selEnd >>
       ELSE selStart' = Len(otherContent) /\ selEnd' = Len(otherContent)
    /\ run' = NoRun
    /\ UNCHANGED << undoStack, redoStack, lastValue, hasSelection, rafQueue,
                    lastEdits, translate, api >>

-----------------------------------------------------------------------------
(* Inputs *)

Repeat(c, n) == [ i \in 1..n |-> c ]

\* the edits typed: insert or delete 1, TypingDelta or TypingDelta + 1
\* characters at the end of the text
TypedLens == { 1, TypingDelta, TypingDelta + 1 }

TypedEdits(v) ==
    { v \o Repeat("a", n) : n \in TypedLens }
      \cup { SubSeq(v, 1, Len(v) - n) : n \in { m \in TypedLens : m <= Len(v) } }

\* every selection of text v, carets included
AllSelections(v) == { se \in (0..Len(v)) \X (0..Len(v)) : se[1] <= se[2] }

\* the selections the user makes in Spec: the first character, or all of the
\* text (a caret is what every change of the text leaves behind)
Selections(v) ==
    { se \in AllSelections(v) : se \in { << 0, 1 >>, << 0, Len(v) >> } }

\* the buttons the user clicks in Spec
SpecIds == { "bold", "bullets", "link", "hr", "undo", "redo" }

InitValues == { << "a" >> }

-----------------------------------------------------------------------------
(* The editor after construction with value v *)

InitEditor(v) ==
    /\ value = v
    /\ undoStack = << >>
    /\ redoStack = << >>
    /\ lastValue = v
    /\ selStart = 0
    /\ selEnd = 0
    /\ hasSelection = FALSE
    /\ rafQueue = << >>
    /\ otherContent = << >>
    /\ lastOp = "init"
    /\ pre = [ value |-> v, undoStack |-> << >>, redoStack |-> << >>,
               lastValue |-> v, selStart |-> 0, selEnd |-> 0,
               hasSelection |-> FALSE, rafQueue |-> << >>,
               lastEdits |-> << "none", "none" >> ]
    /\ run = NoRun
    /\ lastEdits = << "none", "none" >>
    /\ nEvents = 0

\* no request to the translate endpoint
NoRequest == [ pc |-> "idle" ]

\* no admin API call
NoCall == [ pc |-> "idle" ]

\* the page with the editor, with no request under way
InitWith(v) ==
    /\ InitEditor(v)
    /\ translate = NoRequest
    /\ api = NoCall

-----------------------------------------------------------------------------
(* Spec: the editor under a bounded number of clicks and typed edits. The   *)
(* frame callback of a transform runs before the next event is handled.     *)

Init == \E v \in InitValues : InitWith(v)

ToolbarClick ==
    \E id \in SpecIds :
        /\ nEvents < MaxEvents
        /\ rafQueue = << >>
        /\ nEvents' = nEvents + 1
        /\ handleToolbarClick(id)
        /\ Len(value') <= MaxLen

Change ==
    \E v \in TypedEdits(value) :
        /\ nEvents < MaxEvents
        /\ rafQueue = << >>
        /\ Len(v) <= MaxLen
        /\ nEvents' = nEvents + 1
        /\ handleChange(v)

Select ==
    \E se \in Selections(value) :
        /\ rafQueue = << >>
        /\ << selStart, selEnd >> # se
        /\ UNCHANGED nEvents
        /\ handleSelectionChange(se[1], se[2])

Raf == animationFrame /\ UNCHANGED nEvents

Next == ToolbarClick \/ Change \/ Select \/ Raf

Spec == Init /\ [][Next]_vars

-----------------------------------------------------------------------------
(* SpecTabs: the editor of Spec inside the article form, whose user may also *)
(* switch to the other language tab.                                         *)

SwitchTab ==
    /\ nEvents < MaxEvents
    /\ rafQueue = << >>
    /\ nEvents' = nEvents + 1
    /\ setActiveTab

NextTabs == ToolbarClick \/ Change \/ Select \/ Raf \/ SwitchTab

SpecTabs == Init /\ [][NextTabs]_vars

-----------------------------------------------------------------------------
(* SpecKeys: the editor used from the keyboard only: typed edits, selections *)
(* and the key events of the textarea.                                       *)

\* the key of a key event is upper case when Shift is held
Keys(shiftKey) ==
    IF shiftKey THEN { "B", "I", "Z", "Y", "A" } ELSE { "b", "i", "z", "y", "a" }

\* no modifier, Ctrl, or Meta
Modifiers == { << FALSE, FALSE >>, << TRUE, FALSE >>, << FALSE, TRUE >> }

KeyEvents ==
    UNION { { KeyEvent(k, m[1], m[2], sh) : k \in Keys(sh), m \in Modifiers } :
              sh \in BOOLEAN }

KeyDown ==
    \E e \in KeyEvents :
        /\ nEvents < MaxEvents
        /\ rafQueue = << >>
        /\ nEvents' = nEvents + 1
        /\ handleKeyDown(e)
        /\ Len(value') <= MaxLen

NextKeys == KeyDown \/ Change \/ Select \/ Raf

SpecKeys == Init /\ [][NextKeys]_vars

-----------------------------------------------------------------------------
(* SpecFrames: the editor of Spec when events are handled faster than frames *)
(* are painted: a click or a typed edit may be handled while the frame       *)
(* callback of an earlier transform is still waiting.                        *)

FrameClick ==
    \E id \in SpecIds :
        /\ nEvents < MaxEvents
        /\ nEvents' = nEvents + 1
        /\ handleToolbarClick(id)
        /\ Len(value') <= MaxLen

FrameChange ==
    \E v \in TypedEdits(value) :
        /\ nEvents < MaxEvents
        /\ Len(v) <= MaxLen
        /\ nEvents' = nEvents + 1
        /\ handleChange(v)

FrameSelect ==
    \E se \in Selections(value) :
        /\ << selStart, selEnd >> # se
        /\ UNCHANGED nEvents
        /\ handleSelectionChange(se[1], se[2])

NextFrames == FrameClick \/ FrameChange \/ FrameSelect \/ Raf

SpecFrames == Init /\ [][NextFrames]_vars

-----------------------------------------------------------------------------
(* SpecPure: every formatting operation on every short text and selection.  *)
(* The editor is constructed with any text over PureAlphabet; the user may  *)
(* type one character and may then undo it, so that the operation meets     *)
(* empty and non-empty stacks; then the user selects and clicks once.       *)

PureAlphabet == { "-", " ", NL }

RECURSIVE Strings(_, _)
Strings(alphabet, n) ==
    IF n = 0 THEN { << >> }
    ELSE LET shorter == Strings(alphabet, n - 1)
         IN  shorter \cup { Append(s, c) : s \in shorter, c \in alphabet }

\* "hello world", the text of the spec's example
HelloWorld == << "h", "e", "l", "l", "o", " ", "w", "o", "r", "l", "d" >>

\* "a\nb", the two lines of the spec's heading example
TwoLines == << "a", NL, "b" >>

PureValues == Strings(PureAlphabet, PureMaxLen) \cup { HelloWorld, TwoLines }

InitPure == \E v \in PureValues : InitWith(v)

PureType ==
    /\ lastOp = "init"
    /\ UNCHANGED nEvents
    /\ handleChange(Append(value, "a"))

PureUndo ==
    /\ lastOp = "type"
    /\ UNCHANGED nEvents
    /\ handleToolbarClick("undo")

PureSelect ==
    \E se \in AllSelections(value) :
        /\ lastOp \in { "init", "type", "undo" }
        /\ nEvents = 0
        /\ UNCHANGED nEvents
        /\ handleSelectionChange(se[1], se[2])

\* the ids handleToolbarClick is called with: the buttons of the toolbar, an
\* entry of toolbarButtons that is no operation, and a name that is no entry
PureIds == FormatOps \cup { "undo", "redo" } \cup { "divider1", "toString" }

PureClick ==
    \E id \in PureIds :
        /\ lastOp = "select"
        /\ nEvents' = nEvents + 1
        /\ handleToolbarClick(id)

NextPure == PureType \/ PureUndo \/ PureSelect \/ PureClick

SpecPure == InitPure /\ [][NextPure]_vars

-----------------------------------------------------------------------------
(* SpecHistory: long histories. The user alternates two transforms that     *)
(* keep the text short (bold on the first character of a text of at most 5  *)
(* characters, horizontal rule on the whole of a longer one) and calls      *)
(* undo and redo at will.                                                   *)

HistorySelection(v) == IF Len(v) <= 5 THEN << 0, 1 >> ELSE << 0, Len(v) >>

HistoryId(v) == IF Len(v) <= 5 THEN "bold" ELSE "hr"

InitHistory == InitWith(<< "a" >>)

HistorySelect ==
    /\ rafQueue = << >>
    /\ << selStart, selEnd >> # HistorySelection(value)
    /\ UNCHANGED nEvents
    /\ handleSelectionChange(HistorySelection(value)[1], HistorySelection(value)[2])

HistoryClick ==
    /\ rafQueue = << >>
    /\ << selStart, selEnd >> = HistorySelection(value)
    /\ run.phase = "fwd" => run.n < MaxRun
    /\ UNCHANGED nEvents
    /\ handleToolbarClick(HistoryId(value))

HistoryUndo ==
    /\ rafQueue = << >>
    /\ UNCHANGED nEvents
    /\ handleToolbarClick("undo")

HistoryRedo ==
    /\ rafQueue = << >>
    /\ UNCHANGED nEvents
    /\ handleToolbarClick("redo")

HistoryRaf == animationFrame /\ UNCHANGED nEvents

NextHistory ==
    HistorySelect \/ HistoryClick \/ HistoryUndo \/ HistoryRedo \/ HistoryRaf

SpecHistory == InitHistory /\ [][NextHistory]_vars

-----------------------------------------------------------------------------
(* What the last event was, in terms of the state it was handled in *)

\* the text that was selected when the last event was handled
PreSelected == substring(pre.value, pre.selStart, pre.selEnd)

\* the last event was a formatting operation invoked with an empty selection
FormatOnCaret == lastOp \in FormatOps /\ pre.selStart = pre.selEnd

\* the last event was a formatting operation invoked with a selection
FormatOnSelection == lastOp \in FormatOps /\ pre.selStart < pre.selEnd

\* the selection the last transform asked the next frame to set
NewSelection == rafQueue[Len(rafQueue)]

\* the last event changed neither the buffer nor the stacks
SameBufferAndStacks ==
    /\ value = pre.value
    /\ undoStack = pre.undoStack
    /\ redoStack = pre.redoStack

Abs(n) == IF n < 0 THEN -n ELSE n

\* by how many characters the last event changed the length of the buffer
LengthChange == Abs(Len(value) - Len(pre.value))

-----------------------------------------------------------------------------
(* C1 *)

\* C1: a formatting operation invoked while the selection is empty leaves the
\* buffer, the undo stack and the redo stack unchanged (checked under
\* SpecPure: all fourteen operations, every text, every caret position, with
\* empty and with non-empty stacks).
C1_EmptySelectionNoOp == FormatOnCaret => SameBufferAndStacks

\* the table operation was invoked at a caret while redo was available
C1_Witness ==
    /\ FormatOnCaret
    /\ lastOp = "table"
    /\ pre.redoStack # << >>
    /\ Len(pre.value) > 0

-----------------------------------------------------------------------------
(* C2 *)

\* the n undo calls that follow n successful transforms are done
RunUndone == run.phase = "undo" /\ run.k = run.n

\* and so are the n redo calls that follow them
RunRedone == run.phase = "redo" /\ run.k = run.n

\* C2 as claimed: after n successful transforms from buffer B0, n undo calls
\* restore B0 and n redo calls after that restore the buffer reached by the
\* last transform, for every n.
C2_UndoRedoInverseAnyN ==
    /\ RunUndone => value = run.base
    /\ RunRedone => value = run.top

\* C2 as amended: the same for every n up to the history cap of 50.
C2_UndoRedoInverse ==
    run.n <= UndoLimit =>
        /\ RunUndone => value = run.base
        /\ RunRedone => value = run.top

\* 50 transforms were undone and redone again, from a buffer that differs
\* from the one they reached
C2_Witness ==
    /\ RunRedone
    /\ run.n = UndoLimit
    /\ run.base # run.top
    /\ value = run.top

-----------------------------------------------------------------------------
(* C3 *)

\* the last event recorded an edit: a transform that was applied, or a typed
\* edit that pushed a snapshot
RecordedEdit ==
    \/ FormatOnSelection
    \/ lastOp = "type" /\ lastEdits[2] = "push"

\* C3: recording a tracked edit empties the redo stack, and a redo that
\* follows a successful transform (after an undo or not) changes neither the
\* buffer nor the stacks.
C3_RedoInvalidation ==
    /\ RecordedEdit => redoStack = << >>
    /\ (lastOp = "redo" /\ pre.lastEdits[2] = "transform") => SameBufferAndStacks

\* redo was invoked after an undo followed by a transform, which had found the
\* redo stack non-empty
C3_Witness ==
    /\ lastOp = "redo"
    /\ pre.lastEdits = << "undo", "transform" >>
    /\ Len(pre.undoStack) > 0
    /\ pre.value # Last(pre.undoStack)

\* a typed edit was recorded while redo was available
C3_WitnessTyped ==
    /\ lastOp = "type"
    /\ lastEdits[2] = "push"
    /\ pre.redoStack # << >>

-----------------------------------------------------------------------------
(* C4 *)

\* C4 as claimed: the undo stack never holds more than 50 entries.
C4_UndoStackAtMost50 == Len(undoStack) <= UndoLimit

-----------------------------------------------------------------------------
(* C5 *)

\* C5 as claimed: of the consecutive undo calls that follow more than 50
\* recorded transforms, the 51st and every later one changes nothing.
C5_AtMost50Undos ==
    (lastOp = "undo" /\ run.phase = "undo" /\ run.n > UndoLimit /\ run.k > UndoLimit)
        => SameBufferAndStacks

-----------------------------------------------------------------------------
(* C6 *)

\* C6 as claimed: a typed edit that changes the length of the buffer by at
\* most 10 characters while the undo stack is non-empty adds no entry to it.
C6_SmallTypedEditRecordsNothing ==
    (lastOp = "type" /\ pre.undoStack # << >> /\ LengthChange <= TypingDelta)
        => undoStack = pre.undoStack

-----------------------------------------------------------------------------
(* C7 *)

\* C7 as claimed: a typed edit that changes the length of the buffer by more
\* than 10 characters adds exactly one entry, the buffer before that edit.
C7_LargeTypedEditRecordsPrior ==
    (lastOp = "type" /\ LengthChange > TypingDelta)
        => undoStack = Append(pre.undoStack, pre.value)

-----------------------------------------------------------------------------
(* C8 *)

\* C8: for every formatting operation applied to a non-empty selection,
\* 0 <= newSelectionStart <= newSelectionEnd <= length(newText).
C8_SelectionWithinText ==
    FormatOnSelection =>
        /\ 0 <= NewSelection[1]
        /\ NewSelection[1] <= NewSelection[2]
        /\ NewSelection[2] <= Len(value)

\* the horizontal rule replaced a selection that reaches the end of the text
C8_Witness ==
    /\ FormatOnSelection
    /\ lastOp = "hr"
    /\ pre.selEnd = Len(pre.value)
    /\ NewSelection[2] = Len(value)

-----------------------------------------------------------------------------
(* C9 *)

WrapOps == { "bold", "italic", "code", "codeblock" }

\* the markers the claim names
OpenMarker(op) ==
    CASE op = "bold" -> << "*", "*" >>
      [] op = "italic" -> << "*" >>
      [] op = "code" -> << BQ >>
      [] op = "codeblock" -> << BQ, BQ, BQ, NL >>

CloseMarker(op) ==
    CASE op = "bold" -> << "*", "*" >>
      [] op = "italic" -> << "*" >>
      [] op = "code" -> << BQ >>
      [] op = "codeblock" -> << NL, BQ, BQ, BQ >>

\* "hello **world**"
HelloBoldWorld ==
    << "h", "e", "l", "l", "o", " ", "*", "*", "w", "o", "r", "l", "d", "*", "*" >>

\* C9: bold, italic, inline code and code block replace the selected text S
\* by open + S + close, and the new selection is the inner copy of S; bold on
\* "hello world" with selection 6-11 gives "hello **world**", selection 8-13.
C9_Wrapping ==
    (FormatOnSelection /\ lastOp \in WrapOps) =>
        /\ value = substring(pre.value, 0, pre.selStart)
                     \o OpenMarker(lastOp) \o PreSelected \o CloseMarker(lastOp)
                     \o substringFrom(pre.value, pre.selEnd)
        /\ NewSelection[1] = pre.selStart + Len(OpenMarker(lastOp))
        /\ substring(value, NewSelection[1], NewSelection[2]) = PreSelected
        /\ (lastOp = "bold" /\ pre.value = HelloWorld
              /\ pre.selStart = 6 /\ pre.selEnd = 11)
             => value = HelloBoldWorld /\ NewSelection = << 8, 13 >>

\* bold was applied to "world" of "hello world"
C9_Witness ==
    /\ FormatOnSelection
    /\ lastOp = "bold"
    /\ pre.value = HelloWorld
    /\ pre.selStart = 6
    /\ pre.selEnd = 11
    /\ value = HelloBoldWorld

-----------------------------------------------------------------------------
(* C10 *)

LinePrefixOps == { "h1", "h2", "h3", "quote", "numbered" }

\* the prefix the claim gives line i (1-based) under operation op
LinePrefix(op, i) ==
    CASE op = "h1" -> << "#", " " >>
      [] op = "h2" -> << "#", "#", " " >>
      [] op = "h3" -> << "#", "#", "#", " " >>
      [] op = "quote" -> << ">", " " >>
      [] op = "numbered" -> NumToStr(i) \o << ".", " " >>

\* "## a\n## b"
TwoHeadings == << "#", "#", " ", "a", NL, "#", "#", " ", "b" >>

\* C10: heading k, blockquote and numbered list prefix every line of the
\* selection (k '#' and a space, "> ", "i. " for the i-th line); the text
\* around the selection is untouched and the new selection spans exactly the
\* transformed block, starting at the old start; h2 on "a\nb" gives
\* "## a\n## b".
C10_LinePrefixes ==
    (FormatOnSelection /\ lastOp \in LinePrefixOps) =>
        LET old == split(PreSelected)
            block == substring(value, NewSelection[1], NewSelection[2])
            new == split(block)
        IN  /\ NewSelection[1] = pre.selStart
            /\ value = substring(pre.value, 0, pre.selStart) \o block
                         \o substringFrom(pre.value, pre.selEnd)
            /\ Len(new) = Len(old)
            /\ \A i \in 1..Len(old) : new[i] = LinePrefix(lastOp, i) \o old[i]
            /\ (lastOp = "h2" /\ pre.value = TwoLines
                  /\ pre.selStart = 0 /\ pre.selEnd = 3)
                 => value = TwoHeadings

\* the numbered list was applied to a selection of three lines inside a text
C10_Witness ==
    /\ FormatOnSelection
    /\ lastOp = "numbered"
    /\ Len(split(PreSelected)) = 3
    /\ pre.selStart > 0
    /\ substring(value, pre.selStart, pre.selStart + 3) = << "1", ".", " " >>

-----------------------------------------------------------------------------
(* C11 *)

\* "https://"
UrlPlaceholder == << "h", "t", "t", "p", "s", ":", "/", "/" >>

\* what the claim puts before the selected text
LinkLead(op) == IF op = "image" THEN << "!", "[" >> ELSE << "[" >>

\* the text before and the text after the selection of the last event
PrePrefix == substring(pre.value, 0, pre.selStart)
PreSuffix == substringFrom(pre.value, pre.selEnd)

\* C11: link replaces the selection S by "[S](https://)" and image by
\* "![S](https://)"; the new selection covers exactly the 8 characters
\* "https://" of the inserted text.
C11_LinkPlaceholder ==
    (FormatOnSelection /\ lastOp \in { "link", "image" }) =>
        /\ value = PrePrefix \o LinkLead(lastOp) \o PreSelected
                     \o << "]", "(" >> \o UrlPlaceholder \o << ")" >> \o PreSuffix
        /\ NewSelection[2] - NewSelection[1] = 8
        /\ substring(value, NewSelection[1], NewSelection[2]) = UrlPlaceholder
        /\ NewSelection[1] =
             pre.selStart + Len(LinkLead(lastOp)) + Len(PreSelected) + 2

\* link was applied to a selection in the middle of a text
C11_Witness ==
    /\ FormatOnSelection
    /\ lastOp = "link"
    /\ pre.selStart > 0
    /\ pre.selEnd < Len(pre.value)
    /\ substring(value, NewSelection[1], NewSelection[2]) = UrlPlaceholder

-----------------------------------------------------------------------------
(* C12 *)

\* "| Column 1 | Column 2 |\n|---|---|\n| "
TableBefore ==
    << "|", " ", "C", "o", "l", "u", "m", "n", " ", "1", " ", "|", " ",
       "C", "o", "l", "u", "m", "n", " ", "2", " ", "|", NL >>
      \o << "|", "-", "-", "-", "|", "-", "-", "-", "|", NL >>
      \o << "|", " " >>

\* " |  |"
TableAfter == << " ", "|", " ", " ", "|" >>

\* C12 as claimed: table puts the template with S in its first cell in place
\* of the selection, and the new selection covers exactly that S.
C12_TableSelectsCell ==
    (FormatOnSelection /\ lastOp = "table") =>
        /\ value = PrePrefix \o TableBefore \o PreSelected \o TableAfter \o PreSuffix
        /\ substring(value, NewSelection[1], NewSelection[2]) = PreSelected

-----------------------------------------------------------------------------
(* C13 *)

\* the line starts with "- " once its leading whitespace is passed over
Bulleted(line) ==
    \E k \in 0..Len(line) :
        /\ \A j \in 1..k : line[j] \in { " ", "\t" }
        /\ Len(line) >= k + 2
        /\ line[k + 1] = "-"
        /\ line[k + 2] = " "

\* C13: bullet list prefixes "- " to each selected line that does not start
\* with "- " after its leading whitespace and leaves the other lines as they
\* are; applied again to the block it produced, it changes nothing.
C13_Bullets ==
    (FormatOnSelection /\ lastOp = "bullets") =>
        LET old == split(PreSelected)
            block == substring(value, NewSelection[1], NewSelection[2])
            new == split(block)
        IN  /\ NewSelection[1] = pre.selStart
            /\ value = PrePrefix \o block \o PreSuffix
            /\ Len(new) = Len(old)
            /\ \A i \in 1..Len(old) :
                 new[i] = IF Bulleted(old[i]) THEN old[i]
                          ELSE << "-", " " >> \o old[i]
            /\ bullets(block, value, NewSelection[1], NewSelection[2]).newText
                 = value

\* bullet list was applied to an indented bulleted line and a line without
\* a bullet
C13_Witness ==
    /\ FormatOnSelection
    /\ lastOp = "bullets"
    /\ LET old == split(PreSelected)
       IN  /\ \E i \in 1..Len(old) : Bulleted(old[i]) /\ old[i][1] = " "
           /\ \E j \in 1..Len(old) : ~Bulleted(old[j])

-----------------------------------------------------------------------------
(* C14 *)

\* "\n---\n"
RuleBlock == << NL, "-", "-", "-", NL >>

\* C14: horizontal rule replaces the selection by "\n---\n" whatever was
\* selected: the new buffer is prefix + "\n---\n" + suffix and the new
\* selection spans exactly the 5 characters inserted.
C14_HorizontalRule ==
    (FormatOnSelection /\ lastOp = "hr") =>
        /\ value = PrePrefix \o RuleBlock \o PreSuffix
        /\ Len(value) = Len(pre.value) - Len(PreSelected) + 5
        /\ NewSelection = << pre.selStart, pre.selStart + 5 >>
        /\ substring(value, NewSelection[1], NewSelection[2]) = RuleBlock

\* the rule replaced two characters in the middle of a text
C14_Witness ==
    /\ FormatOnSelection
    /\ lastOp = "hr"
    /\ pre.selStart > 0
    /\ pre.selEnd = pre.selStart + 2
    /\ pre.selEnd < Len(pre.value)
    /\ PreSelected # << "-", "-" >>

-----------------------------------------------------------------------------
(* C15 *)

\* the last event was handleToolbarClick with an id that is neither undo,
\* redo nor a formatting operation
UnknownId == lastOp \in PureIds \ (FormatOps \cup { "undo", "redo" })

C15_KnownInvalidIsNoOp ==
    /\ lastOp = "divider1" => SameBufferAndStacks
    /\ FormatOnCaret => SameBufferAndStacks
    /\ (lastOp = "undo" /\ pre.undoStack = << >>) => SameBufferAndStacks
    /\ (lastOp = "redo" /\ pre.redoStack = << >>) => SameBufferAndStacks

-----------------------------------------------------------------------------
(* C16 *)

\* C16 as claimed: when the host swaps in the buffer of another language
\* tab, the history is reset: right after the switch both stacks are empty.
C16_SwitchResetsHistory ==
    lastOp = "switch" => (undoStack = << >> /\ redoStack = << >>)

-----------------------------------------------------------------------------
(* C17 *)

\* the last event was the key event e
Pressed(e) == lastOp = KeyLabel(e)

\* nothing of the editor was changed by the last event
NothingChanged ==
    /\ SameBufferAndStacks
    /\ selStart = pre.selStart
    /\ selEnd = pre.selEnd
    /\ rafQueue = pre.rafQueue

\* the last event applied the wrapping operation with marker m to the
\* selection and recorded the buffer
Wrapped(m) ==
    /\ value = PrePrefix \o m \o PreSelected \o m \o PreSuffix
    /\ undoStack = Append(sliceLast(pre.undoStack, UndoLimit), pre.value)
    /\ redoStack = << >>

\* the last event did what undo does
DidUndo ==
    IF pre.undoStack = << >> THEN NothingChanged
    ELSE /\ value = pre.undoStack[Len(pre.undoStack)]
         /\ undoStack = SubSeq(pre.undoStack, 1, Len(pre.undoStack) - 1)
         /\ redoStack = Append(pre.redoStack, pre.value)

\* the last event did what redo does
DidRedo ==
    IF pre.redoStack = << >> THEN NothingChanged
    ELSE /\ value = pre.redoStack[Len(pre.redoStack)]
         /\ redoStack = SubSeq(pre.redoStack, 1, Len(pre.redoStack) - 1)
         /\ undoStack = Append(pre.undoStack, pre.value)

\* a selection was active when the last event was handled
SelectionActive == pre.hasSelection /\ pre.selStart < pre.selEnd

\* C17: with Ctrl or Meta held, B and I apply bold and italic when a
\* selection is active and otherwise change nothing; Z performs undo, and Y
\* or Shift+Z performs redo, with or without a selection; without Ctrl and
\* Meta, and for any other key, nothing is changed.
C17_Shortcuts ==
    \A e \in KeyEvents :
        Pressed(e) =>
            LET k == toLowerCase(e.key)
            IN  IF ~(e.ctrlKey \/ e.metaKey) THEN NothingChanged
                ELSE IF k = "b"
                THEN IF SelectionActive THEN Wrapped(<< "*", "*" >>)
                     ELSE NothingChanged
                ELSE IF k = "i"
                THEN IF SelectionActive THEN Wrapped(<< "*" >>)
                     ELSE NothingChanged
                ELSE IF k = "z" /\ ~e.shiftKey THEN DidUndo
                ELSE IF k = "y" \/ (k = "z" /\ e.shiftKey) THEN DidRedo
                ELSE NothingChanged

\* Ctrl+Shift+Z has redone an undone edit while no selection was tracked
C17_Witness ==
    /\ Pressed(KeyEvent("Z", TRUE, FALSE, TRUE))
    /\ ~pre.hasSelection
    /\ pre.redoStack # << >>
    /\ value = pre.redoStack[Len(pre.redoStack)]
    /\ value # pre.value

-----------------------------------------------------------------------------
(* C18 *)

-----------------------------------------------------------------------------
(* C19 *)

\* C19: undo with a non-empty undo stack sets the buffer to the newest entry
\* of the undo stack, removes that entry and appends the buffer it replaced
\* to the redo stack; with an empty undo stack it changes neither the buffer
\* nor the stacks.
C19_Undo == lastOp = "undo" => DidUndo

\* an undo restored a snapshot while the redo stack held an entry already
C19_Witness ==
    /\ lastOp = "undo"
    /\ pre.undoStack # << >>
    /\ pre.redoStack # << >>
    /\ value # pre.value
    /\ Len(redoStack) = Len(pre.redoStack) + 1

-----------------------------------------------------------------------------
(* C20 *)

\* C20: redo with a non-empty redo stack sets the buffer to the newest entry
\* of the redo stack, removes that entry and appends the buffer it replaced
\* to the undo stack; with an empty redo stack it changes neither the buffer
\* nor the stacks.
C20_Redo == lastOp = "redo" => DidRedo

\* a redo restored a snapshot while the undo stack held an entry already
C20_Witness ==
    /\ lastOp = "redo"
    /\ pre.redoStack # << >>
    /\ pre.undoStack # << >>
    /\ value # pre.value
    /\ Len(undoStack) = Len(pre.undoStack) + 1

-----------------------------------------------------------------------------
(* C21 *)

\* the last event put exactly one entry, the buffer it was handled in, on
\* top of entries of the undo stack it found, and emptied the redo stack
RecordedOne ==
    /\ undoStack # << >>
    /\ undoStack[Len(undoStack)] = pre.value
    /\ Len(undoStack) <= Len(pre.undoStack) + 1
    /\ \A i \in 1..(Len(undoStack) - 1) :
         undoStack[i] = pre.undoStack[Len(pre.undoStack) - (Len(undoStack) - 1) + i]
    /\ redoStack = << >>

\* C21: every formatting operation applied to a non-empty selection records
\* exactly one history entry: the newest entry of the undo stack is the whole
\* buffer as it was before the transform and the redo stack is empty, also
\* when the transform returns the text unchanged.
C21_TransformRecordsOne == FormatOnSelection => RecordedOne

\* bullet list was applied to a bulleted line while redo was available: the
\* text is the same and the entry was recorded
C21_Witness ==
    /\ FormatOnSelection
    /\ lastOp = "bullets"
    /\ value = pre.value
    /\ pre.redoStack # << >>
    /\ RecordedOne

-----------------------------------------------------------------------------
(* C22 *)

\* the last event was a typed edit that changed the buffer while the undo
\* stack was empty
TypedOnEmptyStack ==
    lastOp = "type" /\ pre.undoStack = << >> /\ value # pre.value

\* C22 as claimed: a typed change made while the undo stack is empty records
\* exactly one entry, the buffer shown immediately before the change, also
\* when the stack was emptied by undo or the buffer was last changed by a
\* transform or a redo.
C22_TypedBootstrap == TypedOnEmptyStack => undoStack = << pre.value >>

\* the same for an editor whose buffer was changed by typing only, which is
\* when lastValueRef holds the buffer shown
C22_TypedBootstrapFresh ==
    (TypedOnEmptyStack /\ pre.lastValue = pre.value) =>
        undoStack = << pre.value >>

-----------------------------------------------------------------------------
(* C23 *)

\* the result of the formatting operation id in the current state
ResultNow(id) ==
    transforms(id, substring(value, selStart, selEnd), value, selStart, selEnd)

\* a step in which the formatting operation id is applied to a selection:
\* the buffer is recorded and replaced, and the new selection is only handed
\* to the next frame
TransformStep(id) ==
    /\ undoStack' # << >>
    /\ undoStack'[Len(undoStack')] = value
    /\ value' = ResultNow(id).newText
    /\ rafQueue' = Append(rafQueue, << ResultNow(id).newSelectionStart,
                                      ResultNow(id).newSelectionEnd >>)

\* a step in which a frame callback runs: the buffer it finds is the one its
\* transform produced, and it sets the selection the transform returned
FrameStep ==
    /\ lastOp \in FormatOps
    /\ LET r == transforms(lastOp, PreSelected, pre.value, pre.selStart,
                           pre.selEnd)
       IN  /\ undoStack[Len(undoStack)] = pre.value
           /\ value = r.newText
           /\ value' = value
           /\ selStart' = r.newSelectionStart
           /\ selEnd' = r.newSelectionEnd

-----------------------------------------------------------------------------
(* C24 *)

\* C24 as claimed: whenever a frame callback runs, the end of the selection
\* it applies lies within the buffer shown at that moment, whatever was
\* handled between the transform and its callback.
C24_FrameOffsetsValid ==
    lastOp = "raf" => pre.rafQueue[1][2] <= Len(pre.value)

-----------------------------------------------------------------------------
(* C25 *)

Reverse(q) == [ i \in 1..Len(q) |-> q[Len(q) + 1 - i] ]

\* the undo stack, then the buffer, then the redo stack from its newest entry
Timeline(u, v, r) == u \o << v >> \o Reverse(r)

\* C25 as claimed: every undo and every redo leaves the sequence undoStack,
\* buffer, reversed redoStack as it was, and any undo followed at once by a
\* redo, or redo followed at once by an undo, brings back the buffer and both
\* stacks exactly.
C25_LinearTimelineAnyPair ==
    [][ /\ lastOp' \in { "undo", "redo" } =>
             Timeline(undoStack', value', redoStack')
               = Timeline(undoStack, value, redoStack)
        /\ \/ lastOp = "undo" /\ lastOp' = "redo"
           \/ lastOp = "redo" /\ lastOp' = "undo"
           => /\ value' = pre.value
              /\ undoStack' = pre.undoStack
              /\ redoStack' = pre.redoStack ]_vars

\* C25: every undo and every redo leaves the sequence undoStack, buffer,
\* reversed redoStack as it was; an undo that found an entry to restore,
\* followed at once by a redo, and a redo that found an entry, followed at
\* once by an undo, bring back the buffer and both stacks exactly.
C25_LinearTimeline ==
    [][ /\ lastOp' \in { "undo", "redo" } =>
             Timeline(undoStack', value', redoStack')
               = Timeline(undoStack, value, redoStack)
        /\ \/ lastOp = "undo" /\ pre.undoStack # << >> /\ lastOp' = "redo"
           \/ lastOp = "redo" /\ pre.redoStack # << >> /\ lastOp' = "undo"
           => /\ value' = pre.value
              /\ undoStack' = pre.undoStack
              /\ redoStack' = pre.redoStack ]_vars

\* a redo right after an undo has brought the buffer of before the undo back
C25_Witness ==
    /\ lastOp = "redo"
    /\ lastEdits = << "undo", "redo" >>
    /\ pre.redoStack # << >>
    /\ pre.undoStack # << >>
    /\ value # pre.value
    /\ Timeline(undoStack, value, redoStack)
         = Timeline(pre.undoStack, pre.value, pre.redoStack)

-----------------------------------------------------------------------------
(* C26 *)

\* C26 as claimed: whenever the redo stack is non-empty, the last change of
\* the buffer was an undo or a redo: no typed edit and no transform has
\* changed the buffer since, so redo never overwrites text typed after the
\* undo.
C26_RedoOnlyAfterUndoRedo ==
    redoStack # << >> => lastEdits[2] \in { "undo", "redo" }

-----------------------------------------------------------------------------
(* C27 *)

\* C27: a formatting operation applied to the selection (start, end) changes
\* only the selected range: the new buffer starts with the first start
\* characters of the old buffer and ends with the old buffer from end onward,
\* and the two do not overlap.
C27_OnlySelectionChanges ==
    FormatOnSelection =>
        /\ Len(value) >= Len(PrePrefix) + Len(PreSuffix)
        /\ substring(value, 0, pre.selStart) = PrePrefix
        /\ substringFrom(value, Len(value) - Len(PreSuffix)) = PreSuffix

\* an operation was applied to a selection with text before and after it,
\* and both are where they were
C27_Witness ==
    /\ FormatOnSelection
    /\ PrePrefix # << >>
    /\ PreSuffix # << >>
    /\ PreSuffix # PrePrefix
    /\ value # pre.value
    /\ substring(value, 0, pre.selStart) = PrePrefix
    /\ substringFrom(value, Len(value) - Len(PreSuffix)) = PreSuffix

-----------------------------------------------------------------------------
(* The translate endpoint: POST /api/translate                              *)

\* the keys of LANGUAGE_LABELS
LANGUAGE_LABELS == { "uz_latin", "uz_cyrillic", "ru", "en" }

\* a name every object literal inherits from Object.prototype
ObjectPrototypeKeys == { "toString" }

\* key in LANGUAGE_LABELS: the `in` operator also finds inherited names
InLanguageLabels(key) == key \in LANGUAGE_LABELS \cup ObjectPrototypeKeys

\* The text of the language model is a sequence of tokens: FENCE is three
\* backticks, "json" the word after an opening fence, OBJ the members of a
\* JSON object (its own braces balanced), "x" any other text.
FENCE == "FENCE"
OBJ == "OBJ"

\* String.prototype.trim()
RECURSIVE trimEnd(_)
trimEnd(s) ==
    IF Len(s) > 0 /\ s[Len(s)] \in Whitespace
    THEN trimEnd(SubSeq(s, 1, Len(s) - 1))
    ELSE s

trim(s) == trimEnd(trimStart(s))

\* text.indexOf(c) looked for from position from on, as a position from 1,
\* 0 when there is none
IndexFrom(text, c, from) ==
    IF \E i \in from..Len(text) : text[i] = c
    THEN CHOOSE i \in from..Len(text) :
             text[i] = c /\ \A j \in from..(i - 1) : text[j] # c
    ELSE 0

\* a JSON candidate, or null
NoCandidate == [ found |-> FALSE, json |-> << >> ]
Candidate(json) == [ found |-> TRUE, json |-> json ]

\* group 1 of text.match(/```(?:json)?\s*([\s\S]*?)\s*```/i), the empty text
\* when there is no match
fencedGroup(text) ==
    LET open == IndexFrom(text, FENCE, 1)
        close == IF open = 0 THEN 0 ELSE IndexFrom(text, FENCE, open + 1)
    IN  IF close = 0 THEN << >>
        ELSE LET from == IF open + 1 < close /\ text[open + 1] = "json"
                         THEN open + 2
                         ELSE open + 1
             IN  trim(SubSeq(text, from, close - 1))

\* the loop of extractJsonCandidate from position i with depth open braces
RECURSIVE braceScan(_, _, _, _)
braceScan(text, start, i, depth) ==
    IF i > Len(text) THEN NoCandidate
    ELSE LET opened == IF text[i] = "{" THEN depth + 1 ELSE depth
         IN  IF text[i] = "}"
             THEN IF opened - 1 = 0
                  THEN Candidate(SubSeq(text, start, i))
                  ELSE braceScan(text, start, i + 1, opened - 1)
             ELSE braceScan(text, start, i + 1, opened)

extractJsonCandidate(text) ==
    IF fencedGroup(text) # << >>
    THEN Candidate(trim(fencedGroup(text)))
    ELSE LET start == IndexFrom(text, "{", 1)
         IN  IF start = 0 THEN NoCandidate
             ELSE braceScan(text, start, start, 0)

\* a member of an entry: a string, or anything else (absent, a number, ...)
Str(v) == [ isString |-> TRUE, str |-> v ]
NotString == [ isString |-> FALSE, str |-> "" ]

FullEntry == [ title |-> Str("Title"), content |-> Str("Content") ]
TitleOnly == [ title |-> Str("Title"), content |-> NotString ]
NoEntry == [ title |-> NotString, content |-> NotString ]

\* a parsed object: either { translations: ... } or the map itself
Parsed(hasTranslations, translationsIsObject, entries) ==
    [ hasTranslations |-> hasTranslations,
      translationsIsObject |-> translationsIsObject,
      entries |-> entries ]

EmptyObject == Parsed(FALSE, TRUE, << >>)

\* JSON.parse(json), where payload is the object whose members OBJ stands for
JSONparse(json, payload) ==
    LET t == SelectSeq(json, LAMBDA c : c \notin Whitespace)
    IN  IF t = << "{", OBJ, "}" >> THEN [ ok |-> TRUE, value |-> payload ]
        ELSE IF t = << "{", "}" >> THEN [ ok |-> TRUE, value |-> EmptyObject ]
        ELSE [ ok |-> FALSE, value |-> EmptyObject ]

\* translationsRaw[lang]: anything that is no entry of the map has neither a
\* string title nor a string content
entryOf(entries, lang) ==
    IF lang \in DOMAIN entries THEN entries[lang] ELSE NoEntry

\* Array.from(new Set(targets)): the first occurrences, in order
RECURSIVE uniqueOf(_)
uniqueOf(targets) ==
    IF targets = << >> THEN << >>
    ELSE LET front == uniqueOf(SubSeq(targets, 1, Len(targets) - 1))
             last == targets[Len(targets)]
         IN  IF \E i \in 1..Len(front) : front[i] = last
             THEN front
             ELSE Append(front, last)

\* uniqueTargets
uniqueTargetsOf(sourceLanguage, targets) ==
    SelectSeq(uniqueOf(targets),
              LAMBDA t : t # sourceLanguage /\ InLanguageLabels(t))

\* the elements of a sequence
Range(q) == { q[i] : i \in 1..Len(q) }

\* the loop that assembles translations
translationsOf(uniqueTargets, entries) ==
    [ lang \in Range(uniqueTargets) |->
        LET entry == entryOf(entries, lang)
        IN  [ title |-> IF entry.title.isString THEN entry.title.str ELSE "",
              content |-> IF entry.content.isString THEN entry.content.str
                          ELSE "" ] ]

\* a request that has arrived
Arrived(req) ==
    [ pc |-> "validate", req |-> req, uniqueTargets |-> << >>, calls |-> 0,
      text |-> << >>, repairs |-> 0, repairFailed |-> FALSE,
      candidate |-> NoCandidate, parsed |-> EmptyObject, status |-> 0,
      translations |-> << >> ]

\* NextResponse.json(..., { status })
Respond(status) == translate' = [ translate EXCEPT !.pc = "done", !.status = status ]

\* POST, up to the first call of the model
postValidate ==
    /\ translate.pc = "validate"
    /\ LET req == translate.req
           unique == uniqueTargetsOf(req.sourceLanguage, req.targets)
       IN  IF ~req.apiKey THEN Respond(500)
           ELSE IF ~req.bodyIsJson THEN Respond(400)
           ELSE IF req.sourceLanguage = ""
                     \/ ~InLanguageLabels(req.sourceLanguage)
           THEN Respond(400)
           ELSE IF ~req.targetsIsArray \/ Len(req.targets) = 0
           THEN Respond(400)
           ELSE IF Len(unique) = 0 THEN Respond(400)
           ELSE translate' = [ translate EXCEPT !.pc = "call",
                                                !.uniqueTargets = unique ]
    /\ UNCHANGED << editorVars, api >>

\* callGemini(apiKey, prompt) answers g: the first call and what follows it
\* up to the repair
postCall(g) ==
    /\ translate.pc = "call"
    /\ IF ~g.ok
       THEN translate' = [ translate EXCEPT !.pc = "done", !.status = 502,
                                            !.calls = @ + 1 ]
       ELSE IF g.text = << >>
       THEN translate' = [ translate EXCEPT !.pc = "done", !.status = 502,
                                            !.calls = @ + 1 ]
       ELSE LET candidateJson == extractJsonCandidate(g.text)
            IN  translate' =
                  [ translate EXCEPT !.calls = @ + 1,
                                     !.text = g.text,
                                     !.candidate = candidateJson,
                                     !.pc = IF candidateJson.found
                                            THEN "parse" ELSE "repair" ]
    /\ UNCHANGED << editorVars, api >>

\* the repair that is tried again while no JSON candidate is found
postRepairRetries(g) ==
    /\ translate.pc = "repair"
    /\ LET candidateJson == IF g.ok THEN extractJsonCandidate(g.text)
                            ELSE NoCandidate
       IN  translate' =
             [ translate EXCEPT !.calls = @ + 1,
                                !.repairs = @ + 1,
                                !.repairFailed = ~g.ok,
                                !.candidate = candidateJson,
                                !.pc = IF candidateJson.found \/ translate.calls > 2
                                       THEN "parse" ELSE "repair" ]
    /\ UNCHANGED << editorVars, api >>

\* callGemini(apiKey, repairPrompt) answers g
postRepair(g) ==
    /\ translate.pc = "repair"
    /\ translate' =
         [ translate EXCEPT !.calls = @ + 1,
                            !.repairs = @ + 1,
                            !.repairFailed = ~g.ok,
                            !.candidate = IF g.ok
                                          THEN extractJsonCandidate(g.text)
                                          ELSE @,
                            !.pc = "parse" ]
    /\ UNCHANGED << editorVars, api >>

\* POST from `if (!candidateJson)` to the end; payload is the object the
\* model wrote
postAssemble(payload) ==
    /\ translate.pc = "parse"
    /\ IF ~translate.candidate.found THEN Respond(502)
       ELSE LET parsed == JSONparse(translate.candidate.json, payload)
            IN  IF ~parsed.ok THEN Respond(502)
                ELSE IF parsed.value.hasTranslations
                          /\ ~parsed.value.translationsIsObject
                THEN translate' = [ translate EXCEPT !.pc = "done",
                                                     !.status = 502,
                                                     !.parsed = parsed.value ]
                ELSE translate' =
                       [ translate EXCEPT
                           !.pc = "done",
                           !.status = 200,
                           !.parsed = parsed.value,
                           !.translations =
                              translationsOf(translate.uniqueTargets,
                                             parsed.value.entries) ]
    /\ UNCHANGED << editorVars, api >>

-----------------------------------------------------------------------------
(* SpecTranslate: one request to the translate endpoint, with every answer  *)
(* of the language model.                                                    *)

\* the longest targets array
MaxTargets == 2

SourceValues == { "", "en", "fr", "toString" }
TargetValues == { "en", "ru", "fr", "toString" }

Request(apiKey, bodyIsJson, sourceLanguage, targetsIsArray, targets) ==
    [ apiKey |-> apiKey, bodyIsJson |-> bodyIsJson,
      sourceLanguage |-> sourceLanguage, targetsIsArray |-> targetsIsArray,
      targets |-> targets ]

Requests ==
    { Request(TRUE, TRUE, src, TRUE, t) :
        src \in SourceValues, t \in Strings(TargetValues, MaxTargets) }
      \cup { Request(TRUE, TRUE, src, FALSE, << >>) : src \in SourceValues }
      \cup { Request(FALSE, TRUE, "en", TRUE, << "ru" >>),
             Request(TRUE, FALSE, "", FALSE, << >>) }

\* answers of the model: nothing, prose, an object, an object in prose, in a
\* fence, in a fence marked json, an unclosed object, an empty fence before
\* an object, an empty object, nested braces, prose in a fence
Texts ==
    { << >>,
      << "x" >>,
      << "{", OBJ, "}" >>,
      << "x", " ", "{", OBJ, "}", " ", "x" >>,
      << FENCE, NL, "{", OBJ, "}", NL, FENCE >>,
      << "x", FENCE, "json", NL, "{", OBJ, "}", NL, FENCE >>,
      << "{", OBJ >>,
      << FENCE, FENCE, "{", OBJ, "}" >>,
      << "{", "}" >>,
      << "{", "{", OBJ, "}", "}" >>,
      << FENCE, "x", FENCE >> }

GeminiAnswers ==
    { [ ok |-> FALSE, text |-> << >> ] }
      \cup { [ ok |-> TRUE, text |-> t ] : t \in Texts }

EntryMaps ==
    { << >>,
      [ k \in { "en" } |-> FullEntry ],
      [ k \in { "en", "ru" } |-> IF k = "en" THEN FullEntry ELSE TitleOnly ] }

Payloads ==
    { Parsed(h, TRUE, m) : h \in BOOLEAN, m \in EntryMaps }
      \cup { Parsed(TRUE, FALSE, << >>) }

InitTranslate ==
    /\ InitEditor(<< >>)
    /\ api = NoCall
    /\ \E req \in Requests : translate = Arrived(req)

Validate ==
    /\ translate.status = 0
    /\ postValidate

CallModel ==
    \E g \in GeminiAnswers :
        /\ translate.status = 0
        /\ postCall(g)

Repair ==
    \E g \in GeminiAnswers :
        /\ translate.status = 0
        /\ postRepair(g)

Assemble ==
    \E payload \in Payloads :
        /\ translate.status = 0
        /\ postAssemble(payload)

NextTranslate == Validate \/ CallModel \/ Repair \/ Assemble

SpecTranslate == InitTranslate /\ [][NextTranslate]_vars

-----------------------------------------------------------------------------
(* C28 *)

\* the distinct requested targets that are known languages and differ from
\* the source language
WantedTargets ==
    { t \in Range(translate.req.targets) :
        t \in LANGUAGE_LABELS /\ t # translate.req.sourceLanguage }

\* the request could be read: the key is configured and the body is JSON
Readable == translate.req.apiKey /\ translate.req.bodyIsJson

\* what C28 says of the answer to the request being handled
TranslationsAsClaimed ==
    /\ translate.status = 200 =>
         /\ DOMAIN translate.translations = WantedTargets
         /\ \A lang \in DOMAIN translate.translations :
              LET entry == entryOf(translate.parsed.entries, lang)
                  out == translate.translations[lang]
              IN  /\ out.title = IF entry.title.isString
                                 THEN entry.title.str ELSE ""
                  /\ out.content = IF entry.content.isString
                                   THEN entry.content.str ELSE ""
    /\ (Readable /\ WantedTargets = { } /\ translate.pc # "validate") =>
         (translate.status = 400 /\ translate.calls = 0)

\* C28 as claimed: a successful response holds a translations map whose keys
\* are exactly the distinct requested targets that are known languages and
\* differ from the source language, each with a string title and content
\* (empty when the model's output lacks the field); a request with no such
\* target is answered 400 before any call of the model.
C28_TranslationsForKnownTargets ==
    translate.pc # "idle" => TranslationsAsClaimed

\* the same for requests whose targets are no names inherited from
\* Object.prototype
C28_TranslationsForOwnKeys ==
    (translate.pc # "idle"
       /\ Range(translate.req.targets) \cap ObjectPrototypeKeys = { })
      => TranslationsAsClaimed

-----------------------------------------------------------------------------
(* C29 *)

\* the text has a JSON candidate: a fenced block that is not empty, or an
\* opening brace that is closed
HasJsonCandidate(text) ==
    \/ \E i, j \in 1..Len(text) :
         /\ i < j
         /\ text[i] = FENCE
         /\ text[j] = FENCE
         /\ \A k \in 1..(i - 1) : text[k] # FENCE
         /\ \A k \in (i + 1)..(j - 1) : text[k] # FENCE
         /\ \E k \in (i + 1)..(j - 1) :
              /\ text[k] \notin Whitespace
              /\ ~(k = i + 1 /\ text[k] = "json")
    \/ \E i, j \in 1..Len(text) :
         /\ i < j
         /\ text[i] = "{"
         /\ text[j] = "}"
         /\ \A k \in 1..(i - 1) : text[k] # "{"
         /\ Cardinality({ k \in i..j : text[k] = "{" })
              = Cardinality({ k \in i..j : text[k] = "}" })

\* C29: the endpoint calls the language model at most twice for a request;
\* the repair call is made at most once, and only after a first answer with
\* a non-empty text that has no JSON candidate; when the repair call fails
\* or its answer has no JSON candidate either, the endpoint answers 502.
C29_AtMostOneRepair ==
    translate.pc # "idle" =>
        /\ translate.calls <= 2
        /\ translate.repairs <= 1
        /\ translate.repairs = 1 =>
             /\ translate.calls = 2
             /\ translate.text # << >>
             /\ ~HasJsonCandidate(translate.text)
        /\ (translate.pc = "done" /\ translate.repairs = 1
              /\ (translate.repairFailed \/ ~translate.candidate.found)) =>
             translate.status = 502
        /\ translate.status = 200 => translate.candidate.found

\* a repair call was made and its answer held the JSON that was returned
C29_Witness ==
    /\ translate.pc = "done"
    /\ translate.repairs = 1
    /\ translate.calls = 2
    /\ ~HasJsonCandidate(translate.text)
    /\ translate.candidate.found
    /\ translate.status = 200

-----------------------------------------------------------------------------
(* The admin API client (lib/api.ts), the credential probe of the login    *)
(* page and the proxy route they both call. localStorage holds the backend *)
(* URL and the admin key; "" stands for an item that is not there. A call  *)
(* is followed from its start to its result: `fetches` counts the HTTP     *)
(* requests it issued, `creds` is what it found stored when it started.    *)

\* the admin keys typed into the login form
AdminKeys == { "key-1", "key-2" }

\* the backend URL typed into the login form, and the one of the build
FormUrl == "http://backend"
EnvUrl == "http://env-backend"

\* response.ok
ok(status) == status \in 200..299

\* a || b || null on strings: the first that is not empty
OrElse(a, b) == IF a # "" THEN a ELSE b

\* getStoredCredentials in the browser
getStoredCredentials(a) ==
    [ apiUrl |-> OrElse(a.storedUrl, a.env), adminKey |-> a.storedKey ]

\* setStoredCredentials
setStoredCredentials(a, apiUrl, adminKey) ==
    [ a EXCEPT !.storedUrl = apiUrl, !.storedKey = adminKey ]

\* clearStoredCredentials
clearStoredCredentials(a) ==
    [ a EXCEPT !.storedUrl = "", !.storedKey = "" ]

\* no request headers
NoHeaders == [ backendUrl |-> "", adminKey |-> "" ]

\* the client before a call
ApiIdle(env) ==
    [ pc |-> "idle", env |-> env, storedUrl |-> "", storedKey |-> "",
      caller |-> "none", method |-> "GET",
      creds |-> [ apiUrl |-> "", adminKey |-> "" ],
      req |-> NoHeaders, backendKey |-> "", fetches |-> 0, status |-> 0,
      outcome |-> "none", errStatus |-> 0 ]

\* a call begins: what the last call left is forgotten
Begin(a, caller, method) ==
    [ a EXCEPT !.caller = caller, !.method = method,
               !.creds = [ apiUrl |-> a.storedUrl, adminKey |-> a.storedKey ],
               !.req = NoHeaders, !.backendKey = "", !.fetches = 0,
               !.status = 0, !.outcome = "none", !.errStatus = 0 ]

\* fetch(proxyUrl, { headers })
fetchProxy(a, backendUrl, adminKey) ==
    [ a EXCEPT !.pc = "sent", !.fetches = @ + 1,
               !.req = [ backendUrl |-> backendUrl, adminKey |-> adminKey ] ]

\* apiRequest sends without looking at the credentials
apiRequestUnguarded(method) ==
    /\ api.pc \in { "idle", "done" }
    /\ LET a == Begin(api, "apiRequest", method)
           c == getStoredCredentials(api)
       IN  api' = fetchProxy(a, c.apiUrl, c.adminKey)

\* apiRequest up to its fetch
apiRequest(method) ==
    /\ api.pc \in { "idle", "done" }
    /\ LET a == Begin(api, "apiRequest", method)
           c == getStoredCredentials(api)
       IN  IF c.apiUrl = "" \/ c.adminKey = ""
           THEN api' = [ a EXCEPT !.pc = "done",
                                  !.outcome = "UnauthorizedError" ]
           ELSE api' = fetchProxy(a, c.apiUrl, c.adminKey)

\* apiRequest after its fetch
apiRequestResume ==
    /\ api.pc = "received"
    /\ api.caller = "apiRequest"
    /\ api' = [ api EXCEPT
         !.pc = "done",
         !.outcome = IF api.status = 401 THEN "UnauthorizedError"
                     ELSE IF ~ok(api.status) THEN "ApiError"
                     ELSE IF api.status = 204 THEN "undefined"
                     ELSE "json",
         !.errStatus = IF api.status # 401 /\ ~ok(api.status)
                       THEN api.status ELSE 0 ]

\* the login page's onSubmit up to its fetch; the form requires both fields
onSubmit(apiUrl, adminKey) ==
    /\ api.pc \in { "idle", "done" }
    /\ apiUrl # ""
    /\ adminKey # ""
    /\ api' = fetchProxy(Begin(api, "login", "GET"), apiUrl, adminKey)

\* onSubmit after its fetch: login(apiUrl, adminKey) when the answer is ok
onSubmitResume ==
    /\ api.pc = "received"
    /\ api.caller = "login"
    /\ api' = IF api.status = 401 \/ ~ok(api.status)
              THEN [ api EXCEPT !.pc = "done", !.outcome = "setError",
                                !.errStatus = api.status ]
              ELSE [ setStoredCredentials(api, api.req.backendUrl,
                                          api.req.adminKey)
                       EXCEPT !.pc = "done", !.outcome = "login" ]

\* logout of the auth context
logout ==
    /\ api.storedKey # ""
    /\ api' = clearStoredCredentials(api)

\* what the backend answers: its admin endpoints require the X-ADMIN-KEY
\* header, and the key it accepts is its own matter
BackendStatuses(adminKey) ==
    IF adminKey = "" THEN { 401 } ELSE { 200, 204, 401, 404, 500 }

\* what the proxy makes of the backend's answer: an answer without a body
\* is handed to the Response constructor with the body "", which a runtime
\* that follows the Fetch standard refuses, and the catch answers 500
Relayed(status) ==
    IF status = 204 THEN { 204, 500 } ELSE { status }

\* handleProxy
handleProxy ==
    /\ api.pc = "sent"
    /\ IF api.req.backendUrl = ""
       THEN api' = [ api EXCEPT !.pc = "received", !.status = 400 ]
       ELSE \E s \in BackendStatuses(api.req.adminKey) :
              \E r \in Relayed(s) :
                api' = [ api EXCEPT !.pc = "received", !.status = r,
                                    !.backendKey = api.req.adminKey ]

\* the methods the client uses
Methods == { "GET", "POST", "PATCH", "PUT", "DELETE" }

InitApi ==
    /\ InitEditor(<< >>)
    /\ translate = NoRequest
    /\ \E env \in { "", EnvUrl } : api = ApiIdle(env)

ApiCall ==
    /\ \E method \in Methods : apiRequest(method)
    /\ UNCHANGED << editorVars, translate >>

ApiResume ==
    /\ apiRequestResume
    /\ UNCHANGED << editorVars, translate >>

LoginSubmit ==
    /\ \E adminKey \in AdminKeys : onSubmit(FormUrl, adminKey)
    /\ UNCHANGED << editorVars, translate >>

LoginResume ==
    /\ onSubmitResume
    /\ UNCHANGED << editorVars, translate >>

Logout ==
    /\ logout
    /\ UNCHANGED << editorVars, translate >>

Proxy ==
    /\ handleProxy
    /\ UNCHANGED << editorVars, translate >>

NextApi ==
    ApiCall \/ ApiResume \/ LoginSubmit \/ LoginResume \/ Logout \/ Proxy

SpecApi == InitApi /\ [][NextApi]_vars

-----------------------------------------------------------------------------
(* C30 *)

\* the call found the backend URL or the admin key missing in the storage
CredentialsMissing == api.creds.apiUrl = "" \/ api.creds.adminKey = ""

\* what apiRequest does: without credentials no request and
\* UnauthorizedError; with them a request with the X-ADMIN-KEY header, which
\* the proxy hands on; UnauthorizedError for 401, ApiError with the status
\* for any other status outside 200..299, no value for 204
ApiRequestAsClaimed ==
    /\ CredentialsMissing =>
         /\ api.fetches = 0
         /\ api.pc = "done"
         /\ api.outcome = "UnauthorizedError"
    /\ ~CredentialsMissing =>
         /\ api.fetches = 1
         /\ api.req.adminKey = api.creds.adminKey
         /\ api.req.backendUrl = api.creds.apiUrl
         /\ api.pc \in { "received", "done" } =>
              api.backendKey = api.creds.adminKey
         /\ api.pc = "done" =>
              /\ api.status = 401 <=> api.outcome = "UnauthorizedError"
              /\ (api.status # 401 /\ ~ok(api.status)) <=>
                   api.outcome = "ApiError"
              /\ api.outcome = "ApiError" => api.errStatus = api.status
              /\ api.status = 204 <=> api.outcome = "undefined"
              /\ (ok(api.status) /\ api.status # 204) <=>
                   api.outcome = "json"

====
